---- MODULE Spec2Model ----
(***************************************************************************)
(* Model of the SAST microservice of sast_service/app/app.py: the two      *)
(* bounded in-memory stores (sast_findings, sast_scanning), the analyzer   *)
(* pipeline analyze_sast with the scratch file of run_semgrep_analysis,    *)
(* the deferred-removal timers and clear_all.                              *)
(*                                                                         *)
(* The service runs under Flask's threaded development server and starts   *)
(* one threading.Timer per analyze call; the module-level lists are read   *)
(* and written without any lock.  Each function is therefore modelled as   *)
(* the sequence of its reads and writes of the shared lists, one action    *)
(* per read or write:                                                      *)
(*   Spec      every interleaving of those steps                           *)
(*   SeqSpec   the same steps, one call (or timer, or clear) at a time     *)
(*   StoreSpec the store functions called directly, one after the other    *)
(* A GET of /api/sast/scanning or /api/sast/findings serialises the list   *)
(* as it is at that instant and changes nothing: what a read can observe   *)
(* is exactly the set of reachable states.                                 *)
(***************************************************************************)
EXTENDS Integers, Sequences, FiniteSets, TLC

(* Bounds of the model.  The source sets the two caps to 500 and 20        *)
(* (app.py lines 28-29); the model runs the code with small caps: Cap      *)
(* under Spec and SeqSpec, where NumInv calls of analyze_sast are made,    *)
(* StoreCap under StoreSpec, where the store functions are called with up  *)
(* to MaxLog items in all.                                                 *)
NumInv == 2
Cap == 1
StoreCap == 3
MaxLog == 4

Inv == 1..NumInv

VARIABLES
    MAX_SAST_FINDINGS,    \* the cap of the Findings Store (module global, line 28)
    MAX_SCANNING_ITEMS,   \* the cap of the Scanning Registry (module global, line 29)
    sast_findings,        \* the Findings Store (module global, line 32)
    sast_scanning,        \* the Scanning Registry (module global, line 33):
                          \* a list of references to ScanningItem dicts
    item,                 \* the ScanningItem dicts, by object identity
    semgrep_initialized,  \* the initialization flag (module global, line 34)
    started,              \* initialize_semgrep has run (__main__, line 461)
    files,                \* ids of the scratch files present in TEMP_DIR
    pc,                   \* position of each analyze invocation
    rec,                  \* the record each invocation was called with
    body,                 \* the body it was called with ("" when empty)
    ctype,                \* its lower-cased content-type header
    snap,                 \* the list its pending list comprehension built
    findings,             \* its local findings list
    fidx,                 \* how many findings add_sast_findings has appended
    result,               \* what the call is about to return ("none" otherwise)
    invoked,              \* the analyzers the call has invoked so far
    tpc,                  \* position of the invocation's threading.Timer
    tsnap,                \* the list the timer's list comprehension built
    cpc,                  \* position of a clear_all call
    clist,                \* the files clear_all's os.listdir returned
    cbefore,              \* history: the registry entries there were when the
                          \* latest clear_all started
    evicted,              \* history: the ScanningItems of running calls that
                          \* the pop of line 266 has removed
    log                   \* StoreSpec: the insertions made, in order

vars == <<MAX_SAST_FINDINGS, MAX_SCANNING_ITEMS, sast_findings, sast_scanning, item,
          semgrep_initialized, started, files,
          pc, rec, body, ctype, snap, findings, fidx, result, invoked, tpc, tsnap,
          cpc, clist, cbefore, evicted, log>>

invVars == <<pc, rec, body, ctype, snap, findings, fidx, result, invoked>>
timerVars == <<tpc, tsnap>>
clearVars == <<cpc, clist, cbefore>>
capVars == <<MAX_SAST_FINDINGS, MAX_SCANNING_ITEMS>>

----------------------------------------------------------------------------
(* Inputs *)

NoRecord == [url |-> "", urlIsStr |-> TRUE, timestamp |-> 0, empty |-> TRUE]

(* Captured records.  timestamp 0 stands for an absent timestamp; the      *)
(* record with urlIsStr FALSE carries a url that is not a string, on which *)
(* url.endswith raises inside the try block of analyze_sast.               *)
RECORDS ==
    { [url |-> "http://x/a.js", urlIsStr |-> TRUE,  timestamp |-> 2000, empty |-> FALSE],
      [url |-> "http://x/b",    urlIsStr |-> TRUE,  timestamp |-> 0,    empty |-> FALSE],
      [url |-> "7",             urlIsStr |-> FALSE, timestamp |-> 1000, empty |-> FALSE],
      NoRecord }

CONTENT_TYPES == {"text/html", "application/javascript", "text/plain", "image/png"}

(* The substrings of interest each content type contains. *)
Keywords(ct) ==
    CASE ct = "text/html"              -> {"text", "html"}
      [] ct = "application/javascript" -> {"javascript"}
      [] ct = "application/json"       -> {"json", "application/json"}
      [] ct = "text/plain"             -> {"text"}
      [] ct = "application/xml"        -> {"xml"}
      [] ct = "text/css"               -> {"text", "css"}
      [] OTHER                         -> {}

Contains(ct, kw) == kw \in Keywords(ct)

EndsWith(url, suffix) ==
    CASE url = "http://x/a.js" -> suffix = ".js"
      [] OTHER                 -> FALSE

(* datetime.now() in milliseconds, for a record without a timestamp. *)
Now == 3000

----------------------------------------------------------------------------
(* Pure functions of app.py *)

get_file_type_from_content_type(ct) ==
    IF Contains(ct, "html") THEN "HTML"
    ELSE IF Contains(ct, "javascript") THEN "JavaScript"
    ELSE IF Contains(ct, "json") THEN "JSON"
    ELSE IF Contains(ct, "xml") THEN "XML"
    ELSE IF Contains(ct, "css") THEN "CSS"
    ELSE "Unknown"

is_html(ct) == Contains(ct, "html")

(* The or-chain of lines 336-339 evaluated left to right: url.endswith is  *)
(* reached only when the three content-type tests are false.               *)
JsByContentType(ct) ==
    \/ Contains(ct, "javascript")
    \/ Contains(ct, "application/json")
    \/ Contains(ct, "application/x-javascript")

ClassifyRaises(r, ct) == ~JsByContentType(ct) /\ ~r.urlIsStr

is_js(r, ct) == JsByContentType(ct) \/ EndsWith(r.url, ".js")

is_text(r, ct) ==
    Contains(ct, "text") \/ is_html(ct) \/ is_js(r, ct) \/ Contains(ct, "xml")

(* Lines 77-95 of run_semgrep_analysis. *)
Extension(r, ct) ==
    IF Contains(ct, "html") THEN ".html"
    ELSE IF Contains(ct, "javascript") THEN ".js"
    ELSE IF Contains(ct, "json") THEN ".json"
    ELSE IF Contains(ct, "php") THEN ".php"
    ELSE IF Contains(ct, "python") THEN ".py"
    ELSE IF EndsWith(r.url, ".js") THEN ".js"
    ELSE IF EndsWith(r.url, ".php") THEN ".php"
    ELSE IF EndsWith(r.url, ".py") THEN ".py"
    ELSE ".txt"

Timestamp(r) == IF r.timestamp = 0 THEN Now ELSE r.timestamp

(* The ScanningItem analyze_sast registers (lines 326-331). *)
NewItem(r, ct) ==
    [url |-> r.url, timestamp |-> Timestamp(r), status |-> "analyzing",
     type |-> get_file_type_from_content_type(ct)]

----------------------------------------------------------------------------
(* The store functions, statement by statement.  A list holds references   *)
(* to the dicts of item: a list built by a comprehension shares the dicts  *)
(* of the list it was built from, so a status written through one list is  *)
(* seen through every list that holds the dict.                            *)

(* FilterOutUrl without its condition: nothing is filtered out *)
FilterOutUrl_NoFilter(list, url) == list

(* [scan for scan in sast_scanning if scan['url'] != url] (lines 259, 286) *)
FilterOutUrl(list, url) ==
    LET Keep(o) == item[o].url # url IN SelectSeq(list, Keep)

(* PopFirst as list.pop(): the newest entry goes, not the oldest *)
PopFirst_Last(list) == SubSeq(list, 1, Len(list) - 1)

(* sast_scanning.pop(0) / sast_findings.pop(0) on a non-empty list *)
PopFirst(list) == Tail(list)

(* len(sast_scanning) > MAX_SCANNING_ITEMS (line 265) *)
OverScanningCap(list) == Len(list) > MAX_SCANNING_ITEMS

(* len(sast_findings) > MAX_SAST_FINDINGS (line 299) *)
OverFindingsCap(list) == Len(list) > MAX_SAST_FINDINGS

(* add_scanning_item run without interruption (lines 259-266), for the     *)
(* dict o with the given url                                               *)
add_scanning_item(list, o, url) ==
    LET appended == Append(FilterOutUrl(list, url), o)
    IN  IF OverScanningCap(appended) THEN PopFirst(appended) ELSE appended

(* Index of the first entry with the url, 0 when there is none (275-276) *)
FirstIndexOf(list, url) ==
    IF \E k \in 1..Len(list) : item[list[k]].url = url
    THEN CHOOSE k \in 1..Len(list) :
            /\ item[list[k]].url = url
            /\ \A j \in 1..(k - 1) : item[list[j]].url # url
    ELSE 0

(* update_scanning_item_status that falls back on the oldest entry when    *)
(* no entry has the URL                                                    *)
update_scanning_item_status_Fallback(list, url, status) ==
    LET k == FirstIndexOf(list, url)
    IN  IF k # 0 THEN [item EXCEPT ![list[k]].status = status]
        ELSE IF list = <<>> THEN item
        ELSE [item EXCEPT ![list[1]].status = status]

(* update_scanning_item_status (lines 275-278): the dicts after the call *)
update_scanning_item_status(list, url, status) ==
    LET k == FirstIndexOf(list, url)
    IN  IF k = 0 THEN item ELSE [item EXCEPT ![list[k]].status = status]

(* remove_scanning_item that spares an entry whose status is analyzing *)
remove_scanning_item_SpareAnalyzing(list, url) ==
    SelectSeq(list, LAMBDA o : item[o].url # url \/ item[o].status = "analyzing")

(* remove_scanning_item that removes nothing *)
remove_scanning_item_Keep(list, url) == list

(* remove_scanning_item (line 286) *)
remove_scanning_item(list, url) == FilterOutUrl(list, url)

(* One iteration of the loop of add_sast_findings (lines 298-300) *)
AppendCapped(list, f) ==
    LET appended == Append(list, f)
    IN  IF OverFindingsCap(appended) THEN PopFirst(appended) ELSE appended

RECURSIVE add_sast_findings(_, _)
(* add_sast_findings run without interruption (lines 294-300) *)
add_sast_findings(list, items) ==
    IF items = <<>> THEN list
    ELSE add_sast_findings(AppendCapped(list, Head(items)), Tail(items))

----------------------------------------------------------------------------
(* The external engine, as run_semgrep_analysis sees it *)

(* What os.listdir of the language's rule directory gives: the directory   *)
(* is missing (listdir raises), or the names of its subdirectories.        *)
LISTINGS ==
    { [missing |-> TRUE,  subdirs |-> <<>>],
      [missing |-> FALSE, subdirs |-> <<"security">>],
      [missing |-> FALSE, subdirs |-> <<"security", "audit">>] }

(* How one engine run ends: a results list with one finding ("ok") or none *)
(* ("empty"), a non-zero exit ("exit"), output that is not JSON            *)
(* ("badjson"), JSON without the results key ("nokey").                    *)
OUTCOMES == {"ok", "empty", "exit", "badjson", "nokey"}

SupportedExtension(ext) == ext \in {".js", ".html", ".php", ".py"}

(* Lines 105-141: <base>/security, then every subdirectory listed. *)
Rulesets(ext, listing) ==
    IF SupportedExtension(ext) THEN <<"security">> \o listing.subdirs ELSE <<>>

(* os.path.exists(ruleset), line 148 *)
RulesetExists(name, listing) ==
    \E k \in 1..Len(listing.subdirs) : listing.subdirs[k] = name

Finding(r, name, k) ==
    [url |-> r.url, at |-> Timestamp(r), source |-> "SEMGREP", rule |-> name, run |-> k]

(* Which exceptions of one run the two inner handlers absorb (178-181):    *)
(* SubprocessError and JSONDecodeError; the KeyError of line 156 is not.   *)
RunEscapes(outcome) == outcome = "nokey"

RECURSIVE RunRulesets(_, _, _, _, _, _)
(* The loop of lines 147-181 from ruleset k on: the findings collected and *)
(* whether an exception left the loop.                                     *)
RunRulesets(r, rulesets, listing, outs, k, acc) ==
    IF k > Len(rulesets) THEN [findings |-> acc, escaped |-> FALSE]
    ELSE IF ~RulesetExists(rulesets[k], listing)
         THEN RunRulesets(r, rulesets, listing, outs, k + 1, acc)
    ELSE IF RunEscapes(outs[k]) THEN [findings |-> acc, escaped |-> TRUE]
    ELSE IF outs[k] = "ok"
         THEN RunRulesets(r, rulesets, listing, outs, k + 1,
                          Append(acc, Finding(r, rulesets[k], k)))
    ELSE RunRulesets(r, rulesets, listing, outs, k + 1, acc)

(* Lines 104-193 after the scratch file was written: the findings returned *)
(* and whether the os.unlink of line 186 is reached.                       *)
ScanOutcome(r, ct, listing, outs) ==
    LET ext == Extension(r, ct)
        rulesets == Rulesets(ext, listing)
        loop == RunRulesets(r, rulesets, listing, outs, 1, <<>>)
    IN  IF SupportedExtension(ext) /\ listing.missing
        THEN [findings |-> <<>>, unlink |-> FALSE]
        ELSE IF loop.escaped
        THEN [findings |-> <<>>, unlink |-> FALSE]
        ELSE [findings |-> loop.findings, unlink |-> TRUE]

----------------------------------------------------------------------------
(* Return values: a list, or an exception that leaves analyze_sast *)

NotReturned == [ret |-> "none", val |-> <<>>]
Returned(list) == [ret |-> "list", val |-> list]
Raised == [ret |-> "raise", val |-> <<>>]

InitWith(cap) ==
    /\ MAX_SAST_FINDINGS = cap
    /\ MAX_SCANNING_ITEMS = cap
    /\ sast_findings = <<>>
    /\ sast_scanning = <<>>
    /\ item = <<>>
    /\ semgrep_initialized = FALSE
    /\ started = FALSE
    /\ files = {}
    /\ pc = [i \in Inv |-> "idle"]
    /\ rec = [i \in Inv |-> NoRecord]
    /\ body = [i \in Inv |-> ""]
    /\ ctype = [i \in Inv |-> ""]
    /\ snap = [i \in Inv |-> <<>>]
    /\ findings = [i \in Inv |-> <<>>]
    /\ fidx = [i \in Inv |-> 0]
    /\ result = [i \in Inv |-> NotReturned]
    /\ invoked = [i \in Inv |-> {}]
    /\ tpc = [i \in Inv |-> "off"]
    /\ tsnap = [i \in Inv |-> <<>>]
    /\ cpc = "idle"
    /\ clist = {}
    /\ cbefore = {}
    /\ evicted = {}
    /\ log = <<>>

(* initialize_semgrep (lines 37-58), run once before the server starts:    *)
(* the flag is set when the version probe of line 48 succeeds.             *)
initialize_semgrep ==
    /\ ~started
    /\ started' = TRUE
    /\ \E probe \in BOOLEAN : semgrep_initialized' = probe
    /\ UNCHANGED <<capVars, evicted, sast_findings, sast_scanning, item, files, invVars, timerVars, clearVars, log>>

----------------------------------------------------------------------------
(* analyze_sast, one action per read or write of shared state *)

(* Where analyze_sast goes after add_scanning_item returned (334-349):     *)
(* the classification raises, the content is not text, or it is scanned.   *)
AfterAdd(i) ==
    IF ClassifyRaises(rec[i], ctype[i]) THEN "upd_error"
    ELSE IF ~is_text(rec[i], ctype[i]) \/ body[i] = "" THEN "rm_filter"
    ELSE "semgrep_open"

(* The guard of line 310 without its test of the body *)
PreconditionFails_RecordOnly(r, b) == r.empty

(* The guard of line 310: not record or not body. *)
PreconditionFails(r, b) == r.empty \/ b = ""

(* Invocation ids are given in order of arrival.  The dict of lines        *)
(* 326-331 is built when the guard of line 310 lets the call through; it   *)
(* is object i of item.                                                    *)
Call(i, records, ctypes, bodies) ==
    /\ started
    /\ pc[i] = "idle"
    /\ \A j \in Inv : j < i => pc[j] # "idle"
    /\ \E r \in records, ct \in ctypes, b \in bodies :
          /\ rec' = [rec EXCEPT ![i] = r]
          /\ body' = [body EXCEPT ![i] = b]
          /\ IF PreconditionFails(r, b)
             THEN /\ pc' = [pc EXCEPT ![i] = "return"]
                  /\ result' = [result EXCEPT ![i] = Returned(<<>>)]
                  /\ ctype' = ctype
                  /\ item' = item
             ELSE /\ pc' = [pc EXCEPT ![i] = "add_filter"]
                  /\ ctype' = [ctype EXCEPT ![i] = ct]
                  /\ result' = result
                  /\ item' = (i :> NewItem(r, ct)) @@ item
    /\ UNCHANGED <<sast_findings, sast_scanning, capVars, evicted, semgrep_initialized, started, files,
                   snap, findings, fidx, invoked, timerVars, clearVars, log>>

(* add_scanning_item, line 259, right-hand side *)
AddFilter(i) ==
    /\ pc[i] = "add_filter"
    /\ snap' = [snap EXCEPT ![i] = FilterOutUrl(sast_scanning, rec[i].url)]
    /\ pc' = [pc EXCEPT ![i] = "add_store"]
    /\ UNCHANGED <<sast_findings, sast_scanning, capVars, evicted, item, semgrep_initialized, started, files,
                   rec, body, ctype, findings, fidx, result, invoked, timerVars, clearVars, log>>

(* add_scanning_item, line 259, the assignment to the global *)
AddStore(i) ==
    /\ pc[i] = "add_store"
    /\ sast_scanning' = snap[i]
    /\ snap' = [snap EXCEPT ![i] = <<>>]
    /\ pc' = [pc EXCEPT ![i] = "add_append"]
    /\ UNCHANGED <<sast_findings, capVars, evicted, item, semgrep_initialized, started, files,
                   rec, body, ctype, findings, fidx, result, invoked, timerVars, clearVars, log>>

(* add_scanning_item, line 262 *)
AddAppend(i) ==
    /\ pc[i] = "add_append"
    /\ sast_scanning' = Append(sast_scanning, i)
    /\ pc' = [pc EXCEPT ![i] = "add_cap"]
    /\ UNCHANGED <<sast_findings, capVars, evicted, item, semgrep_initialized, started, files,
                   rec, body, ctype, snap, findings, fidx, result, invoked, timerVars, clearVars, log>>

(* add_scanning_item, line 265 *)
AddCap(i) ==
    /\ pc[i] = "add_cap"
    /\ pc' = [pc EXCEPT ![i] = IF OverScanningCap(sast_scanning) THEN "add_pop" ELSE AfterAdd(i)]
    /\ UNCHANGED <<sast_findings, sast_scanning, capVars, evicted, item, semgrep_initialized, started, files,
                   rec, body, ctype, snap, findings, fidx, result, invoked, timerVars, clearVars, log>>

(* add_scanning_item, line 266; pop(0) of an empty list raises IndexError, *)
(* outside the try block of analyze_sast: the call raises, no timer starts *)
AddPop(i) ==
    /\ pc[i] = "add_pop"
    /\ IF sast_scanning = <<>>
       THEN /\ pc' = [pc EXCEPT ![i] = "return"]
            /\ result' = [result EXCEPT ![i] = Raised]
            /\ sast_scanning' = sast_scanning
            /\ evicted' = evicted
       ELSE /\ pc' = [pc EXCEPT ![i] = AfterAdd(i)]
            /\ result' = result
            /\ sast_scanning' = PopFirst(sast_scanning)
            /\ evicted' = evicted \cup
                    {o \in {sast_scanning[k] : k \in 1..Len(sast_scanning)}
                             \ {sast_scanning'[k] : k \in 1..Len(sast_scanning')} :
                        pc[o] # "done"}
    /\ UNCHANGED <<sast_findings, capVars, item, semgrep_initialized, started, files,
                   rec, body, ctype, snap, findings, fidx, invoked, timerVars, clearVars, log>>

(* remove_scanning_item of line 348, line 286 right-hand side *)
RmFilter(i) ==
    /\ pc[i] = "rm_filter"
    /\ snap' = [snap EXCEPT ![i] = remove_scanning_item(sast_scanning, rec[i].url)]
    /\ pc' = [pc EXCEPT ![i] = "rm_store"]
    /\ UNCHANGED <<sast_findings, sast_scanning, capVars, evicted, item, semgrep_initialized, started, files,
                   rec, body, ctype, findings, fidx, result, invoked, timerVars, clearVars, log>>

(* line 286, the assignment to the global; then return [] (line 349) *)
RmStore(i) ==
    /\ pc[i] = "rm_store"
    /\ sast_scanning' = snap[i]
    /\ snap' = [snap EXCEPT ![i] = <<>>]
    /\ result' = [result EXCEPT ![i] = Returned(<<>>)]
    /\ pc' = [pc EXCEPT ![i] = "finally"]
    /\ UNCHANGED <<sast_findings, capVars, evicted, item, semgrep_initialized, started, files,
                   rec, body, ctype, findings, fidx, invoked, timerVars, clearVars, log>>

(* SemgrepOpen without the test of the flag (lines 70-72) *)
SemgrepOpen_NoGate(i) ==
    /\ pc[i] = "semgrep_open"
    /\ invoked' = [invoked EXCEPT ![i] = @ \cup {"semgrep"}]
    /\ files' = files \cup {i}
    /\ pc' = [pc EXCEPT ![i] = "semgrep_scan"]
    /\ UNCHANGED <<sast_findings, sast_scanning, capVars, evicted, item, semgrep_initialized, started,
                   rec, body, ctype, snap, findings, fidx, result, timerVars, clearVars, log>>

(* run_semgrep_analysis (called at line 355) up to the scratch file being  *)
(* written: lines 70-72 return [] when the flag is unset, lines 97-102     *)
(* create the file, named by a fresh uuid4.                                *)
SemgrepOpen(i) ==
    /\ pc[i] = "semgrep_open"
    /\ invoked' = [invoked EXCEPT ![i] = @ \cup {"semgrep"}]
    /\ IF semgrep_initialized
       THEN /\ files' = files \cup {i}
            /\ pc' = [pc EXCEPT ![i] = "semgrep_scan"]
       ELSE /\ files' = files
            /\ pc' = [pc EXCEPT ![i] = "update"]
    /\ UNCHANGED <<sast_findings, sast_scanning, capVars, evicted, item, semgrep_initialized, started,
                   rec, body, ctype, snap, findings, fidx, result, timerVars, clearVars, log>>

(* run_semgrep_analysis, lines 104-183 and the handler of lines 191-193:   *)
(* the rule directory is listed and the engine run once per ruleset.       *)
SemgrepScan(i, listings, outcomes) ==
    /\ pc[i] = "semgrep_scan"
    /\ \E listing \in listings :
       \E outs \in [1..Len(Rulesets(Extension(rec[i], ctype[i]), listing)) -> outcomes] :
          LET out == ScanOutcome(rec[i], ctype[i], listing, outs)
          IN  /\ findings' = [findings EXCEPT ![i] = out.findings]
              /\ pc' = [pc EXCEPT ![i] = IF out.unlink THEN "semgrep_unlink" ELSE "update"]
    /\ UNCHANGED <<sast_findings, sast_scanning, capVars, evicted, item, semgrep_initialized, started, files,
                   rec, body, ctype, snap, fidx, result, invoked, timerVars, clearVars, log>>

(* run_semgrep_analysis, lines 185-190: os.unlink of the scratch file (an  *)
(* OSError, when the file is already gone, is logged), then the return.    *)
SemgrepUnlink(i) ==
    /\ pc[i] = "semgrep_unlink"
    /\ files' = files \ {i}
    /\ pc' = [pc EXCEPT ![i] = "update"]
    /\ UNCHANGED <<sast_findings, sast_scanning, capVars, evicted, item, semgrep_initialized, started,
                   rec, body, ctype, snap, findings, fidx, result, invoked, timerVars, clearVars, log>>

(* The supplementary analyzers analyze_sast calls (lines 360-368). *)
Analyzers(r, ct) ==
    (IF is_html(ct) THEN {"html"} ELSE {})
      \cup (IF is_js(r, ct) \/ is_html(ct) THEN {"javascript"} ELSE {})
      \cup {"generic"}

(* Lines 356-377: the stub analyzers add nothing to findings; the status   *)
(* is set to completed (371); a non-empty findings list goes to            *)
(* add_sast_findings (374-375), otherwise the call returns it (377).       *)
Update(i) ==
    /\ pc[i] = "update"
    /\ invoked' = [invoked EXCEPT ![i] = @ \cup Analyzers(rec[i], ctype[i])]
    /\ item' = update_scanning_item_status(sast_scanning, rec[i].url, "completed")
    /\ IF findings[i] # <<>>
       THEN /\ pc' = [pc EXCEPT ![i] = "f_append"]
            /\ result' = result
       ELSE /\ pc' = [pc EXCEPT ![i] = "finally"]
            /\ result' = [result EXCEPT ![i] = Returned(findings[i])]
    /\ UNCHANGED <<sast_findings, sast_scanning, capVars, evicted, semgrep_initialized, started, files,
                   rec, body, ctype, snap, findings, fidx, timerVars, clearVars, log>>

(* add_sast_findings, line 298 *)
FAppend(i) ==
    /\ pc[i] = "f_append"
    /\ sast_findings' = Append(sast_findings, findings[i][fidx[i] + 1])
    /\ fidx' = [fidx EXCEPT ![i] = @ + 1]
    /\ pc' = [pc EXCEPT ![i] = "f_cap"]
    /\ UNCHANGED <<sast_scanning, capVars, evicted, item, semgrep_initialized, started, files,
                   rec, body, ctype, snap, findings, result, invoked, timerVars, clearVars, log>>

(* After one iteration of the loop of add_sast_findings: the next one, or  *)
(* the return of line 377.                                                 *)
AfterFinding(i) == IF fidx[i] < Len(findings[i]) THEN "f_append" ELSE "finally"

FindingsResult(i) ==
    IF fidx[i] < Len(findings[i]) THEN result[i] ELSE Returned(findings[i])

(* add_sast_findings, line 299 *)
FCap(i) ==
    /\ pc[i] = "f_cap"
    /\ IF OverFindingsCap(sast_findings)
       THEN /\ pc' = [pc EXCEPT ![i] = "f_pop"]
            /\ result' = result
       ELSE /\ pc' = [pc EXCEPT ![i] = AfterFinding(i)]
            /\ result' = [result EXCEPT ![i] = FindingsResult(i)]
    /\ UNCHANGED <<sast_findings, sast_scanning, capVars, evicted, item, semgrep_initialized, started, files,
                   rec, body, ctype, snap, findings, fidx, invoked, timerVars, clearVars, log>>

(* add_sast_findings, line 300; pop(0) of an empty list raises IndexError, *)
(* inside the try block: the handler of lines 378-382 takes over.          *)
FPop(i) ==
    /\ pc[i] = "f_pop"
    /\ IF sast_findings = <<>>
       THEN /\ pc' = [pc EXCEPT ![i] = "upd_error"]
            /\ result' = result
            /\ sast_findings' = sast_findings
       ELSE /\ pc' = [pc EXCEPT ![i] = AfterFinding(i)]
            /\ result' = [result EXCEPT ![i] = FindingsResult(i)]
            /\ sast_findings' = PopFirst(sast_findings)
    /\ UNCHANGED <<sast_scanning, capVars, evicted, item, semgrep_initialized, started, files,
                   rec, body, ctype, snap, findings, fidx, invoked, timerVars, clearVars, log>>

(* The except block, lines 378-382: status error, return [] *)
UpdError(i) ==
    /\ pc[i] = "upd_error"
    /\ item' = update_scanning_item_status(sast_scanning, rec[i].url, "error")
    /\ result' = [result EXCEPT ![i] = Returned(<<>>)]
    /\ pc' = [pc EXCEPT ![i] = "finally"]
    /\ UNCHANGED <<sast_findings, sast_scanning, capVars, evicted, semgrep_initialized, started, files,
                   rec, body, ctype, snap, findings, fidx, invoked, timerVars, clearVars, log>>

(* The call leaves analyze_sast: its locals are gone; a timer's lambda      *)
(* keeps the url.                                                          *)
Leave(i) ==
    /\ pc' = [pc EXCEPT ![i] = "done"]
    /\ body' = [body EXCEPT ![i] = ""]
    /\ ctype' = [ctype EXCEPT ![i] = ""]
    /\ findings' = [findings EXCEPT ![i] = <<>>]
    /\ fidx' = [fidx EXCEPT ![i] = 0]
    /\ result' = [result EXCEPT ![i] = NotReturned]
    /\ invoked' = [invoked EXCEPT ![i] = {}]
    /\ evicted' = evicted \ {i}

(* The finally block, lines 383-386: the 2-second timer is started, then   *)
(* the call returns what the return statement before it gave.              *)
Finally(i) ==
    /\ pc[i] = "finally"
    /\ tpc' = [tpc EXCEPT ![i] = "armed"]
    /\ Leave(i)
    /\ UNCHANGED <<sast_findings, sast_scanning, capVars, item, semgrep_initialized, started, files,
                   rec, snap, tsnap, clearVars, log>>

(* A return outside the try statement: the return [] of line 311, or the   *)
(* IndexError of line 266 leaving analyze_sast.  No timer is started.      *)
Return(i) ==
    /\ pc[i] = "return"
    /\ Leave(i)
    /\ UNCHANGED <<sast_findings, sast_scanning, capVars, item, semgrep_initialized, started, files,
                   rec, snap, timerVars, clearVars, log>>

----------------------------------------------------------------------------
(* The timer thread: remove_scanning_item(url), line 386 *)

(* line 286, right-hand side *)
TimerFilter(i) ==
    /\ tpc[i] = "armed"
    /\ tsnap' = [tsnap EXCEPT ![i] = remove_scanning_item(sast_scanning, rec[i].url)]
    /\ tpc' = [tpc EXCEPT ![i] = "t_store"]
    /\ UNCHANGED <<sast_findings, sast_scanning, capVars, evicted, item, semgrep_initialized, started, files,
                   invVars, clearVars, log>>

(* line 286, the assignment to the global *)
TimerStore(i) ==
    /\ tpc[i] = "t_store"
    /\ sast_scanning' = tsnap[i]
    /\ tsnap' = [tsnap EXCEPT ![i] = <<>>]
    /\ tpc' = [tpc EXCEPT ![i] = "fired"]
    /\ UNCHANGED <<sast_findings, capVars, evicted, item, semgrep_initialized, started, files,
                   invVars, clearVars, log>>

----------------------------------------------------------------------------
(* clear_all (lines 389-406), called by POST /api/sast/clear *)

(* line 393 *)
ClearFindings ==
    /\ started
    /\ cpc = "idle"
    /\ sast_findings' = <<>>
    /\ cpc' = "c_scanning"
    /\ cbefore' = {sast_scanning[k] : k \in 1..Len(sast_scanning)}
    /\ UNCHANGED <<sast_scanning, capVars, evicted, item, semgrep_initialized, started, files,
                   invVars, timerVars, clist, log>>

(* line 394 *)
ClearScanning ==
    /\ cpc = "c_scanning"
    /\ sast_scanning' = <<>>
    /\ cpc' = "c_list"
    /\ UNCHANGED <<sast_findings, capVars, evicted, item, semgrep_initialized, started, files,
                   invVars, timerVars, clist, cbefore, log>>

(* line 400: os.listdir(TEMP_DIR) *)
ClearList ==
    /\ cpc = "c_list"
    /\ clist' = files
    /\ cpc' = "c_unlink"
    /\ UNCHANGED <<sast_findings, sast_scanning, capVars, evicted, item, semgrep_initialized, started, files,
                   invVars, timerVars, cbefore, log>>

(* lines 400-404: every listed file is unlinked; a failure is logged *)
ClearUnlink ==
    /\ cpc = "c_unlink"
    /\ files' = files \ clist
    /\ clist' = {}
    /\ cpc' = "idle"
    /\ UNCHANGED <<sast_findings, sast_scanning, capVars, evicted, item, semgrep_initialized, started,
                   invVars, timerVars, cbefore, log>>

----------------------------------------------------------------------------
(* Spec: NumInv calls, one clear_all at a time, every interleaving *)

Step(i) ==
    \/ AddFilter(i) \/ AddStore(i) \/ AddAppend(i) \/ AddCap(i) \/ AddPop(i)
    \/ RmFilter(i) \/ RmStore(i)
    \/ SemgrepOpen(i) \/ SemgrepUnlink(i)
    \/ Update(i) \/ FAppend(i) \/ FCap(i) \/ FPop(i) \/ UpdError(i) \/ Finally(i)
    \/ Return(i)

ConcRecords == {r \in RECORDS : r.url \in {"http://x/b", "7", ""}}
ConcTypes == {"application/javascript", "image/png"}
ConcListings == {l \in LISTINGS : l.subdirs # <<"security", "audit">>}
ConcOutcomes == {"ok", "nokey"}

Init == InitWith(Cap)

Next ==
    \/ initialize_semgrep
    \/ \E i \in Inv : Call(i, ConcRecords, ConcTypes, {"", "x"})
    \/ \E i \in Inv : Step(i)
    \/ \E i \in Inv : SemgrepScan(i, ConcListings, ConcOutcomes)
    \/ \E i \in Inv : TimerFilter(i) \/ TimerStore(i)
    \/ ClearFindings \/ ClearScanning \/ ClearList \/ ClearUnlink

Spec == Init /\ [][Next]_vars

----------------------------------------------------------------------------
(* SeqSpec: the same steps, one call, timer or clear_all at a time *)

InvBusy(i) == pc[i] \notin {"idle", "done"}
TimerBusy(i) == tpc[i] = "t_store"
ClearBusy == cpc # "idle"

Quiet == ~ClearBusy /\ \A i \in Inv : ~InvBusy(i) /\ ~TimerBusy(i)

SeqInit == InitWith(Cap)

SeqNext ==
    \/ initialize_semgrep
    \/ \E i \in Inv : Quiet /\ Call(i, RECORDS, CONTENT_TYPES, {"", "x"})
    \/ \E i \in Inv : Step(i)
    \/ \E i \in Inv : SemgrepScan(i, ConcListings, OUTCOMES)
    \/ \E i \in Inv : (Quiet /\ TimerFilter(i)) \/ TimerStore(i)
    \/ (Quiet /\ ClearFindings) \/ ClearScanning \/ ClearList \/ ClearUnlink

SeqSpec == SeqInit /\ [][SeqNext]_vars

----------------------------------------------------------------------------
(* StoreSpec: add_scanning_item and add_sast_findings called directly, one *)
(* call after the other, on stores that start empty.  The k-th dict passed *)
(* to add_scanning_item is object k of item, so item is also the record of *)
(* the insertions made; log is the record of the findings inserted.        *)

STORE_URLS == {"http://x/a.js", "http://x/b", "http://x/c", "http://x/d"}

(* What the other fields of a ScanningItem may be.  The timestamps are not *)
(* in the order of insertion.                                              *)
ITEM_FIELDS ==
    { [timestamp |-> 2000, status |-> "analyzing", type |-> "HTML"],
      [timestamp |-> 1000, status |-> "completed", type |-> "Unknown"] }

StoreItem(url, f) ==
    [url |-> url, timestamp |-> f.timestamp, status |-> f.status, type |-> f.type]

(* The k-th finding inserted; the timestamps decrease. *)
StoreFinding(k) ==
    [url |-> "http://x/a.js", at |-> 3000 - k, source |-> "SEMGREP",
     rule |-> "security", run |-> k]

StoreFindings(from, n) == [j \in 1..n |-> StoreFinding(from + j)]

StoreInit == InitWith(StoreCap)

(* add_scanning_item(item) *)
StoreAddScanningItem ==
    /\ Len(item) < MaxLog
    /\ \E url \in STORE_URLS, f \in ITEM_FIELDS :
          /\ item' = Append(item, StoreItem(url, f))
          /\ sast_scanning' = add_scanning_item(sast_scanning, Len(item) + 1, url)
    /\ UNCHANGED <<capVars, evicted, sast_findings, semgrep_initialized, started, files,
                   invVars, timerVars, clearVars, log>>

(* add_sast_findings(items), items a list of n findings (n = 0: a no-op) *)
StoreAddFindings ==
    /\ \E n \in 0..(MaxLog - Len(log)) :
          /\ sast_findings' = add_sast_findings(sast_findings, StoreFindings(Len(log), n))
          /\ log' = log \o StoreFindings(Len(log), n)
    /\ UNCHANGED <<capVars, evicted, sast_scanning, item, semgrep_initialized, started, files,
                   invVars, timerVars, clearVars>>

StoreNext == StoreAddScanningItem \/ StoreAddFindings

StoreSpec == StoreInit /\ [][StoreNext]_vars

----------------------------------------------------------------------------
(* Properties *)

CountUrl(list, url) == Cardinality({k \in 1..Len(list) : item[list[k]].url = url})
LastN(s, n) == SubSeq(s, Len(s) - n + 1, Len(s))
IsSuffix(s, t) == Len(s) <= Len(t) /\ s = LastN(t, Len(s))
SharedEffects == <<sast_scanning, item, sast_findings, files, tpc>>

(* C1: in every reachable state the Scanning Registry holds at most        *)
(* MAX_SCANNING_ITEMS entries.                                             *)
C1_ScanningWithinCap == Len(sast_scanning) <= MAX_SCANNING_ITEMS

(* C2: in every reachable state the Scanning Registry holds at most one    *)
(* ScanningItem per URL.                                                   *)
C2_OneItemPerUrl ==
    \A j, k \in 1..Len(sast_scanning) :
        j # k => item[sast_scanning[j]].url # item[sast_scanning[k]].url

(* C3: in every reachable state the Findings Store holds at most           *)
(* MAX_SAST_FINDINGS entries.                                              *)
C3_FindingsWithinCap == Len(sast_findings) <= MAX_SAST_FINDINGS

(* C4: once run_semgrep_analysis has returned, the scratch file it created *)
(* no longer exists: the file of invocation i exists only while i is       *)
(* between the write of the file and the os.unlink.                        *)
C4_ScratchFileDeleted ==
    \A i \in Inv : i \in files => pc[i] \in {"semgrep_scan", "semgrep_unlink"}

(* C5: the status of a ScanningItem changes only from analyzing to         *)
(* completed or error, hence at most once, and only by a step of the       *)
(* invocation that created the item.                                       *)
C5_StatusChangesOnceByOwner ==
    [][\A o \in DOMAIN item :
          item'[o].status # item[o].status =>
              /\ item[o].status = "analyzing"
              /\ item'[o].status \in {"completed", "error"}
              /\ pc'[o] # pc[o]]_vars

(* C6: once every invocation has returned with its removal timer started,  *)
(* every timer has fired and no clear_all is in progress, the Scanning     *)
(* Registry is empty.                                                      *)
C6_AllRemovedInTheEnd ==
    (/\ cpc = "idle"
     /\ \A i \in Inv :
           /\ pc[i] \in {"idle", "done"}
           /\ tpc[i] \in {"off", "fired"}
           /\ i \in DOMAIN item => tpc[i] = "fired")
        => sast_scanning = <<>>

(* A call that is returning from the guard of line 310 *)
EarlyReturn(i) == pc[i] = "return" /\ result[i] = Returned(<<>>)

(* C7: a call of analyze_sast with an empty record or an empty body        *)
(* returns the empty list from the guard and changes nothing: registry,    *)
(* ScanningItem dicts, Findings Store, scratch files and timers are as     *)
(* before, at the call and when it leaves.                                 *)
C7_EmptyInputNoEffect ==
    [][\A i \in Inv :
          /\ (pc[i] = "idle" /\ pc'[i] # "idle" /\ (rec'[i].empty \/ body'[i] = ""))
                => (EarlyReturn(i)' /\ UNCHANGED SharedEffects)
          /\ (EarlyReturn(i) /\ pc'[i] # pc[i])
                => (pc'[i] = "done" /\ UNCHANGED SharedEffects)]_vars

(* C7 witness: a call with a record and an empty body is returning while   *)
(* the registry holds an entry of an earlier call.                         *)
C7_Witness ==
    \E i \in Inv :
        EarlyReturn(i) /\ ~rec[i].empty /\ body[i] = "" /\ sast_scanning # <<>>

(* The content of a call in progress is not scan-eligible: is_text false *)
NotEligible(i) ==
    /\ ~rec[i].empty /\ body[i] # ""
    /\ ~ClassifyRaises(rec[i], ctype[i])
    /\ ~is_text(rec[i], ctype[i])

(* C8: a call with a record and a body whose content is not text invokes   *)
(* neither the engine nor an analyzer, leaves the Findings Store and the   *)
(* scratch directory as they are, and returns the empty list with no       *)
(* entry for its URL in the registry.                                      *)
C8_NotEligibleShortCircuit ==
    /\ [](\A i \in Inv : NotEligible(i) =>
            /\ invoked[i] = {}
            /\ pc[i] \in {"add_filter", "add_store", "add_append", "add_cap", "add_pop",
                           "rm_filter", "rm_store", "finally"}
            /\ pc[i] = "finally" =>
                  /\ result[i] = Returned(<<>>)
                  /\ CountUrl(sast_scanning, rec[i].url) = 0)
    /\ [][\A i \in Inv : (NotEligible(i) /\ pc'[i] # pc[i]) =>
            UNCHANGED <<sast_findings, files>>]_vars

(* C8 witness: such a call is about to return while the Findings Store     *)
(* holds findings of an earlier call.                                      *)
C8_Witness ==
    \E i \in Inv : NotEligible(i) /\ pc[i] = "finally" /\ sast_findings # <<>>

DistinctUrls == \A j, k \in DOMAIN item : j # k => item[j].url # item[k].url
InsertionOrder == [k \in 1..Len(item) |-> k]

(* C9: after more insertions than the cap, made one call after the other,  *)
(* each store holds exactly the most recent cap insertions in insertion    *)
(* order: the findings inserted by add_sast_findings, and the items that   *)
(* add_scanning_item was given with distinct URLs.                         *)
C9_FifoEviction ==
    /\ Len(log) > MAX_SAST_FINDINGS
          => sast_findings = LastN(log, MAX_SAST_FINDINGS)
    /\ (DistinctUrls /\ Len(item) > MAX_SCANNING_ITEMS)
          => sast_scanning = LastN(InsertionOrder, MAX_SCANNING_ITEMS)

(* C9 witness: both stores have had more insertions than their cap, and    *)
(* the oldest surviving ScanningItem has a later timestamp than the next.  *)
C9_Witness ==
    /\ Len(log) > MAX_SAST_FINDINGS
    /\ DistinctUrls /\ Len(item) > MAX_SCANNING_ITEMS
    /\ Len(sast_scanning) >= 2
    /\ item[sast_scanning[1]].timestamp > item[sast_scanning[2]].timestamp

(* C10: a call of add_scanning_item leaves exactly one entry with the      *)
(* item's URL, which is the item passed (its status, timestamp and type)   *)
(* in the newest place, and the entries of other URLs keep their relative  *)
(* order.                                                                  *)
C10_UpsertByUrl ==
    [][Len(item') = Len(item) + 1 =>
          LET o == Len(item')
              url == item'[o].url
              Other(x) == item'[x].url # url
          IN  /\ Cardinality({k \in 1..Len(sast_scanning') :
                                 item'[sast_scanning'[k]].url = url}) = 1
              /\ sast_scanning'[Len(sast_scanning')] = o
              /\ IsSuffix(SelectSeq(sast_scanning', Other),
                          SelectSeq(sast_scanning, Other))]_vars

(* C10 witness: the second of two items with one URL and different fields  *)
(* has replaced the first, which stood between two entries of other URLs.  *)
C10_Witness ==
    /\ Len(item) = 4
    /\ item[2].url = item[4].url
    /\ item[2].status # item[4].status
    /\ item[2].timestamp # item[4].timestamp
    /\ item[2].type # item[4].type
    /\ sast_scanning = <<1, 3, 4>>

(* C11: the store operations are atomic for concurrent callers; in         *)
(* particular the remove_scanning_item of a timer for one URL neither      *)
(* discards nor resurrects an entry of another URL: its assignment to      *)
(* sast_scanning leaves the registry restricted to the other URLs as it    *)
(* was.                                                                    *)
C11_RemoveTouchesOwnUrlOnly ==
    [][\A i \in Inv :
          (tpc[i] = "t_store" /\ tpc'[i] = "fired") =>
              FilterOutUrl(sast_scanning', rec[i].url)
                  = FilterOutUrl(sast_scanning, rec[i].url)]_vars

(* C12: the ruleset runs of run_semgrep_analysis are independent: for a    *)
(* call that is about to run the engine, whatever the rule directory       *)
(* lists and however each run ends, the list returned holds the finding    *)
(* of every run that succeeded, before and after a run that failed.        *)
C12_RulesetsIndependent ==
    \A i \in Inv : pc[i] = "semgrep_scan" =>
        \A listing \in LISTINGS :
            LET rulesets == Rulesets(Extension(rec[i], ctype[i]), listing)
            IN  \A outs \in [1..Len(rulesets) -> OUTCOMES] :
                  \A k \in 1..Len(rulesets) :
                      (/\ ~listing.missing
                       /\ RulesetExists(rulesets[k], listing)
                       /\ outs[k] = "ok")
                      => \E j \in 1..Len(ScanOutcome(rec[i], ctype[i], listing, outs).findings) :
                            ScanOutcome(rec[i], ctype[i], listing, outs).findings[j]
                                = Finding(rec[i], rulesets[k], k)

(* C13: an exception raised inside analyze_sast after the guard of line    *)
(* 310 passed never leaves analyze_sast: no call ends by raising.          *)
C13_NoExceptionPropagates ==
    \A i \in Inv : result[i] # Raised

(* C14: what clear_all removed stays removed: once clear_all has returned, *)
(* no entry that was in the Scanning Registry when it started is in the    *)
(* registry, also with analyze calls and timers in flight.                 *)
C14_ClearedEntriesStayGone ==
    cpc = "idle" =>
        \A k \in 1..Len(sast_scanning) : sast_scanning[k] \notin cbefore

(* The content of a call in progress is scanned: the guard of line 310 and *)
(* the test of line 345 let it through, the classification does not raise. *)
Eligible(i) ==
    /\ ~rec[i].empty /\ body[i] # ""
    /\ ~ClassifyRaises(rec[i], ctype[i])
    /\ is_text(rec[i], ctype[i])

(* C15: while semgrep_initialized is false no scratch file exists and no   *)
(* call is at the engine; run_semgrep_analysis returns the empty list      *)
(* without creating a file; only initialize_semgrep changes the flag; and  *)
(* a call on eligible content still ends with its ScanningItem completed.  *)
C15_FailOpen ==
    /\ [](~semgrep_initialized =>
            /\ files = {}
            /\ \A i \in Inv :
                  /\ pc[i] \notin {"semgrep_scan", "semgrep_unlink"}
                  /\ findings[i] = <<>>
                  /\ (pc[i] = "finally" /\ Eligible(i)) =>
                        /\ item[i].status = "completed"
                        /\ result[i] = Returned(<<>>))
    /\ [][\A i \in Inv :
            (~semgrep_initialized /\ pc[i] = "semgrep_open" /\ pc'[i] # pc[i])
                => (pc'[i] = "update" /\ files' = files /\ findings'[i] = <<>>)]_vars
    /\ [][semgrep_initialized' # semgrep_initialized => (~started /\ started')]_vars

(* C15 witness: with the flag false, a call on eligible content has gone   *)
(* through run_semgrep_analysis and is about to return, status completed.  *)
C15_Witness ==
    \E i \in Inv :
        /\ started /\ ~semgrep_initialized
        /\ pc[i] = "finally" /\ Eligible(i)
        /\ "semgrep" \in invoked[i]
        /\ item[i].status = "completed"

(* C16: whenever the registry shows the entry of a call in progress with   *)
(* status completed, every finding the call is going to return is already  *)
(* in the Findings Store (the findings fit under the cap and no clear_all  *)
(* has started).                                                           *)
C16_FindingsBeforeCompleted ==
    \A i \in Inv :
        (/\ pc[i] \notin {"idle", "done"}
         /\ \E k \in 1..Len(sast_scanning) : sast_scanning[k] = i
         /\ item[i].status = "completed"
         /\ Len(findings[i]) <= MAX_SAST_FINDINGS
         /\ cpc = "idle" /\ cbefore = {})
        => \A f \in 1..Len(findings[i]) :
              \E k \in 1..Len(sast_findings) : sast_findings[k] = findings[i][f]

(* C17: removal is by URL only and a started timer is never cancelled: the *)
(* list a timer builds drops every entry with its URL, whichever call      *)
(* created it and whatever its status, and keeps the rest; the timer then  *)
(* assigns that list; no step takes a timer back.  So the timer of a first *)
(* call can remove the item of a second call for the same URL while that   *)
(* item is analyzing.                                                      *)
C17_TimerRemovesByUrlOnly ==
    [][\A i \in Inv :
          /\ (tpc[i] = "armed" /\ tpc'[i] # "armed") =>
                /\ tpc'[i] = "t_store"
                /\ \A k \in 1..Len(tsnap'[i]) : item[tsnap'[i][k]].url # rec[i].url
                /\ Len(tsnap'[i]) = Len(sast_scanning) - CountUrl(sast_scanning, rec[i].url)
          /\ (tpc[i] = "t_store" /\ tpc'[i] # "t_store") =>
                /\ tpc'[i] = "fired"
                /\ sast_scanning' = tsnap[i]
          /\ tpc[i] = "fired" => tpc'[i] = "fired"]_vars

(* C17 witness: the timer of the first call has built its list without the *)
(* item of a second call for the same URL, which is in the registry with   *)
(* status analyzing while the second call is still running, and is about   *)
(* to assign it.                                                           *)
C17_Witness ==
    \E i, j \in Inv :
        /\ i < j
        /\ rec[i].url = rec[j].url
        /\ tpc[i] = "t_store" /\ tpc[j] = "off"
        /\ pc[j] \in {"semgrep_open", "semgrep_scan", "semgrep_unlink", "update"}
        /\ item[j].status = "analyzing"
        /\ \E k \in 1..Len(sast_scanning) : sast_scanning[k] = j
        /\ \A k \in 1..Len(tsnap[i]) : tsnap[i][k] # j

(* C18: capacity eviction ignores status, and a call whose entry is gone   *)
(* goes on: the pop of add_scanning_item removes the oldest entry whatever *)
(* its status; an update_scanning_item_status that finds no entry with the *)
(* URL changes neither the registry nor any ScanningItem; the call then    *)
(* appends its findings to the Findings Store and returns them.            *)
C18_EvictionIgnoresStatus ==
    /\ [][\A i \in Inv :
            /\ (pc[i] = "add_pop" /\ pc'[i] # "add_pop" /\ sast_scanning # <<>>)
                  => sast_scanning' = Tail(sast_scanning)
            /\ (pc[i] = "update" /\ pc'[i] # "update"
                    /\ CountUrl(sast_scanning, rec[i].url) = 0)
                  => /\ UNCHANGED <<sast_scanning, item>>
                     /\ pc'[i] = IF findings[i] # <<>> THEN "f_append" ELSE "finally"
            /\ (pc[i] = "f_append" /\ pc'[i] # "f_append")
                  => sast_findings' = Append(sast_findings, findings[i][fidx[i] + 1])]_vars
    /\ [](\A i \in Inv :
            (pc[i] = "finally" /\ result[i].val # <<>>)
                => (result[i] = Returned(findings[i]) /\ fidx[i] = Len(findings[i])))

(* C18 witness: a call is about to return its findings, which are in the   *)
(* Findings Store, while its ScanningItem, still analyzing, was evicted by *)
(* the pop of add_scanning_item: the registry holds the entry of a later   *)
(* call for another URL that is still running; no timer has started and    *)
(* no clear_all has started.                                               *)
C18_Witness ==
    \E i, j \in Inv :
        /\ i < j
        /\ rec[i].url # rec[j].url
        /\ pc[i] = "finally"
        /\ result[i] = Returned(findings[i]) /\ findings[i] # <<>>
        /\ item[i].status = "analyzing"
        /\ sast_scanning = <<j>>
        /\ pc[j] \in {"semgrep_open", "semgrep_scan", "semgrep_unlink", "update"}
        /\ item[j].status = "analyzing"
        /\ \E k \in 1..Len(sast_findings) : sast_findings[k] = findings[i][Len(findings[i])]
        /\ i \in evicted
        /\ \A n \in Inv : tpc[n] = "off"
        /\ cpc = "idle" /\ cbefore = {}

(* C19: a call of analyze_sast on content that is not text leaves the      *)
(* registry entries of the other URLs as they are: no step of the call     *)
(* changes the registry restricted to the URLs other than the call's.      *)
C19_NotEligibleFrame ==
    [][\A i \in Inv :
          (NotEligible(i) /\ pc'[i] # pc[i])
              => FilterOutUrl(sast_scanning', rec[i].url)
                    = FilterOutUrl(sast_scanning, rec[i].url)]_vars

====
